---------------------------- MODULE Spec2Model ----------------------------
(***************************************************************************)
(* A model of spacy/cli/converters/conllu2json.py: the CoNLL-U to JSON     *)
(* converter.  Text is modelled at character level: a Python string is a   *)
(* sequence of one-character strings, so that str.split, str.strip,        *)
(* "x in s", int(), sorted() and re.search are computed, not assumed.      *)
(***************************************************************************)
EXTENDS Integers, Sequences, FiniteSets, TLC

VARIABLES
    \* ---- simplify_tag applied to one misc column (SpecTag)
    tmisc,        \* the misc column handed to simplify_tag
    tag_out,      \* what simplify_tag returned (empty before the call)
    tpc,          \* "in" | "out"
    \* ---- one sentence through example_from_conllu_sentence (SpecSentence)
    smode,        \* which family of lines the sentence is drawn from
    scols,        \* the sentence as written: per line, its kind and columns
    slines,       \* the sentence as the parser gets it: the lines
    spc,          \* "build" | "parsed"
    s_merge,      \* merge_subtokens of the call
    s_morph,      \* use_morphology of the call
    s_ents,       \* what get_entities returned (line 232)
    s_attrs,      \* the tokens after lines 272-295 of merge_conllu_subtokens
    s_example,    \* what example_from_conllu_sentence returned or raised
    s_sentence,   \* generate_sentence of that example
    \* ---- conllu2json over a corpus (Spec)
    corpus,       \* the corpus as written: the names of its sentences
    c_input,   \* the corpus as conllu2json gets it: one text
    c_n_sents,      \* the batch size
    c_merge,
    c_morph,
    cpc,           \* "start" | "loop" | "done" | "raised"
    c_has_ner, \* line 35
    c_i,            \* the loop index of line 36, -1 while unbound
    c_raw,          \* the text of the sentences not yet in a document
    c_sentences,    \* the sentences not yet in a document
    c_docs,         \* the documents made so far
    returned,     \* what the caller got: the documents, once returned
    error,        \* the exception the caller got
    yielded       \* every example read_conllx has yielded, in order

tagVars == <<tmisc, tag_out, tpc>>

convVars ==
    <<corpus, c_input, c_n_sents, c_merge, c_morph, cpc,
      c_has_ner, c_i, c_raw, c_sentences, c_docs, returned, error, yielded>>

sentVars ==
    <<smode, scols, slines, spc, s_merge, s_morph, s_ents, s_attrs,
      s_example, s_sentence>>

-----------------------------------------------------------------------------
(* Python str primitives *)

TAB == "\t"
NL == "\n"

\* code-point order of the characters the inputs use (for sorted())
Chars ==
    << "\t", "\n", " ", "#", "-", ".",
       "0", "1", "2", "3", "4", "5", "6", "7", "8", "9", "=",
       "A", "B", "C", "D", "E", "F", "G", "H", "I", "J", "K", "L", "M",
       "N", "O", "P", "Q", "R", "S", "T", "U", "V", "W", "X", "Y", "Z",
       "_",
       "a", "b", "c", "d", "e", "f", "g", "h", "i", "j", "k", "l", "m",
       "n", "o", "p", "q", "r", "s", "t", "u", "v", "w", "x", "y", "z",
       "|" >>

Ord(c) == CHOOSE i \in 1..Len(Chars) : Chars[i] = c

Digits == <<"0", "1", "2", "3", "4", "5", "6", "7", "8", "9">>

IsDigit(c) == \E i \in 1..10 : Digits[i] = c

DigitVal(c) == (CHOOSE i \in 1..10 : Digits[i] = c) - 1

\* [A-Z_]
Upper ==
    { "A", "B", "C", "D", "E", "F", "G", "H", "I", "J", "K", "L", "M",
      "N", "O", "P", "Q", "R", "S", "T", "U", "V", "W", "X", "Y", "Z", "_" }

IsSpace(c) == c \in {" ", "\t", "\n"}

SetMin(S) == CHOOSE x \in S : \A y \in S : x <= y

SetMax(S) == CHOOSE x \in S : \A y \in S : x >= y

\* s[i:] and s[i:j] with 1-based i, inclusive j
From(s, i) == SubSeq(s, i, Len(s))

\* s.startswith(p)
StartsWith(s, p) == Len(p) <= Len(s) /\ SubSeq(s, 1, Len(p)) = p

\* s.find(sub) as a 1-based index, 0 when absent
Find(s, sub) ==
    LET hits == { i \in 1..(Len(s) - Len(sub) + 1) :
                    /\ s[i] = sub[1]
                    /\ \A k \in 2..Len(sub) : s[i + k - 1] = sub[k] }
    IN  IF hits = {} THEN 0 ELSE SetMin(hits)

\* sub in s
Contains(s, sub) == Find(s, sub) # 0

\* s.strip()
Strip(s) ==
    IF \A i \in 1..Len(s) : IsSpace(s[i]) THEN <<>>
    ELSE LET first == CHOOSE i \in 1..Len(s) :
                        ~IsSpace(s[i]) /\ \A j \in 1..(i - 1) : IsSpace(s[j])
             last == CHOOSE i \in 1..Len(s) :
                        ~IsSpace(s[i]) /\ \A j \in (i + 1)..Len(s) : IsSpace(s[j])
         IN  SubSeq(s, first, last)

\* s.split(sep), sep non-empty
RECURSIVE Split(_, _)
Split(s, sep) ==
    LET j == Find(s, sep)
    IN  IF j = 0 THEN <<s>>
        ELSE <<SubSeq(s, 1, j - 1)>> \o Split(From(s, j + Len(sep)), sep)

\* sep.join(parts)
RECURSIVE Join(_, _)
Join(parts, sep) ==
    IF Len(parts) = 0 THEN <<>>
    ELSE IF Len(parts) = 1 THEN parts[1]
    ELSE parts[1] \o sep \o Join(Tail(parts), sep)

\* a < b for Python strings (code-point lexicographic)
RECURSIVE StrLess(_, _)
StrLess(a, b) ==
    IF Len(b) = 0 THEN FALSE
    ELSE IF Len(a) = 0 THEN TRUE
    ELSE IF a[1] = b[1] THEN StrLess(Tail(a), Tail(b))
    ELSE Ord(a[1]) < Ord(b[1])

\* sorted(S) for a set of strings
RECURSIVE SortedStrs(_)
SortedStrs(S) ==
    IF S = {} THEN <<>>
    ELSE LET m == CHOOSE x \in S : \A y \in S \ {x} : StrLess(x, y)
         IN  <<m>> \o SortedStrs(S \ {m})

\* s is a non-empty run of decimal digits, what int(s) accepts here
IsInt(s) == Len(s) > 0 /\ \A i \in 1..Len(s) : IsDigit(s[i])

\* int(s)
RECURSIVE PyInt(_)
PyInt(s) ==
    IF Len(s) = 0 THEN 0
    ELSE 10 * PyInt(SubSeq(s, 1, Len(s) - 1)) + DigitVal(s[Len(s)])

-----------------------------------------------------------------------------
(* re.search(MISC_NER_PATTERN, tag) *)

sNAME == <<"n", "a", "m", "e", "=">>
sO == <<"O">>
sPER == <<"P", "E", "R">>
sLOC == <<"L", "O", "C">>
sORG == <<"O", "R", "G">>
sMISC == <<"M", "I", "S", "C">>
sGPE_LOC == <<"G", "P", "E", "_", "L", "O", "C">>
sGPE_ORG == <<"G", "P", "E", "_", "O", "R", "G">>
sSpaceAfterNo == <<"S", "p", "a", "c", "e", "A", "f", "t", "e", "r", "=", "N", "o">>

\* length of the longest run of [A-Z_] starting at s[i]
RunLen(s, i) ==
    LET stops == { j \in i..Len(s) : s[j] \notin Upper }
    IN  IF stops = {} THEN Len(s) - i + 1 ELSE SetMin(stops) - i

NoMatch == [matched |-> FALSE, prefix |-> <<>>, suffix |-> <<>>]

\* (([A-Z_]+)-([A-Z_]+)|O) anchored at s[i]; groups 2 and 3 are empty
\* (Python None) when the second alternative matched
AltAt(s, i) ==
    LET r == IF i <= Len(s) THEN RunLen(s, i) ELSE 0
        d == i + r
        r2 == IF r > 0 /\ d <= Len(s) /\ s[d] = "-" /\ d + 1 <= Len(s)
              THEN RunLen(s, d + 1) ELSE 0
    IN  IF r2 > 0
        THEN [matched |-> TRUE, prefix |-> SubSeq(s, i, d - 1),
              suffix |-> SubSeq(s, d + 1, d + r2)]
        ELSE IF i <= Len(s) /\ s[i] = "O"
        THEN [matched |-> TRUE, prefix |-> <<>>, suffix |-> <<>>]
        ELSE NoMatch

\* the first match of a list of attempts, in the order they are tried
FirstMatch(ms) ==
    LET good == { k \in 1..Len(ms) : ms[k].matched }
    IN  IF good = {} THEN NoMatch ELSE ms[SetMin(good)]

\* the pattern anchored at s[i]: \|? and (?:name=)? are greedy, so the
\* matcher tries them consumed before it tries them empty
MatchAt(s, i) ==
    LET pipe == i <= Len(s) /\ s[i] = "|"
        a == IF pipe THEN i + 1 ELSE i
        tries == (IF pipe /\ StartsWith(From(s, a), sNAME)
                  THEN <<a + Len(sNAME)>> ELSE <<>>)
                 \o (IF pipe THEN <<a>> ELSE <<>>)
                 \o (IF StartsWith(From(s, i), sNAME)
                     THEN <<i + Len(sNAME)>> ELSE <<>>)
                 \o <<i>>
    IN  FirstMatch([ k \in 1..Len(tries) |-> AltAt(s, tries[k]) ])

\* re.search: the match at the leftmost position that has one
ReSearch(s) == FirstMatch([ i \in 1..(Len(s) + 1) |-> MatchAt(s, i) ])

-----------------------------------------------------------------------------
(* simplify_tag *)

simplify_tag_GpeKept(tag) ==
    LET Simplify(tag_match) ==
            IF tag_match.matched /\ tag_match.prefix # <<>> /\ tag_match.suffix # <<>>
            THEN tag_match.prefix \o <<"-">> \o
                 (IF tag_match.suffix = sGPE_ORG THEN sORG
                  ELSE IF tag_match.suffix \notin {sPER, sLOC, sORG, sGPE_LOC}
                  THEN sMISC
                  ELSE tag_match.suffix)
            ELSE sO
    IN  Simplify(ReSearch(tag))

simplify_tag(tag) ==
    LET Simplify(tag_match) ==
            IF tag_match.matched /\ tag_match.prefix # <<>> /\ tag_match.suffix # <<>>
            THEN tag_match.prefix \o <<"-">> \o
                 (IF tag_match.suffix = sGPE_LOC THEN sLOC
                  ELSE IF tag_match.suffix = sGPE_ORG THEN sORG
                  ELSE IF tag_match.suffix \notin {sPER, sLOC, sORG}
                  THEN sMISC
                  ELSE tag_match.suffix)
            ELSE sO
    IN  Simplify(ReSearch(tag))

-----------------------------------------------------------------------------
(* Results and exceptions.  An exception is a record of the exception      *)
(* type, the operation that raised it and the number its message carries.  *)

Raise(exc, what, at) ==
    [ok |-> FALSE, err |-> [exc |-> exc, what |-> what, at |-> at]]

Ok(val) == [ok |-> TRUE, val |-> val]

\* id_, word, lemma, pos, tag, morph, head, dep, _1, misc = parts
NCOLS == 10

Unpack(n) == Raise("ValueError", "unpack", n)

-----------------------------------------------------------------------------
(* iob_to_biluo (spacy.gold): standard span-boundary rules, a tag-sequence *)
(* error naming the offending index for an I with no B or I of its type    *)
(* before it.                                                              *)

TagPrefix(t) == IF Len(t) >= 2 /\ t[2] = "-" THEN <<t[1]>> ELSE t

TagLabel(t) == IF Len(t) >= 2 /\ t[2] = "-" THEN From(t, 3) ELSE <<>>

\* tags[i] continues the entity tags[i-1] is part of
Continues(tags, i) ==
    /\ i > 1 /\ i <= Len(tags)
    /\ TagPrefix(tags[i]) = <<"I">>
    /\ TagPrefix(tags[i - 1]) \in {<<"B">>, <<"I">>}
    /\ TagLabel(tags[i - 1]) = TagLabel(tags[i])

\* the indexes (0-based) no span-boundary rule covers
IobOffenders(tags) ==
    { i - 1 : i \in { j \in 1..Len(tags) :
        \/ TagPrefix(tags[j]) \notin {sO, <<"B">>, <<"I">>}
        \/ TagPrefix(tags[j]) = <<"I">> /\ ~Continues(tags, j) } }

iob_to_biluo(tags) ==
    IF IobOffenders(tags) # {}
    THEN Raise("ValueError", "iob_to_biluo", SetMin(IobOffenders(tags)))
    ELSE Ok([ i \in 1..Len(tags) |->
            IF tags[i] = sO THEN sO
            ELSE IF TagPrefix(tags[i]) = <<"B">>
            THEN (IF Continues(tags, i + 1) THEN <<"B", "-">> ELSE <<"U", "-">>)
                 \o TagLabel(tags[i])
            ELSE (IF Continues(tags, i + 1) THEN <<"I", "-">> ELSE <<"L", "-">>)
                 \o TagLabel(tags[i]) ])

-----------------------------------------------------------------------------
(* get_entities *)

\* the lines' IOB tags; range and decimal ids contribute none
RECURSIVE LineTags(_)
LineTags(lines) ==
    LET Go(parts, rest) ==
            IF Len(parts) # NCOLS THEN Unpack(Len(parts))
            ELSE IF ~rest.ok THEN rest
            ELSE IF Contains(parts[1], <<"-">>) \/ Contains(parts[1], <<".">>)
            THEN rest
            ELSE Ok(<<simplify_tag(parts[10])>> \o rest.val)
    IN  IF Len(lines) = 0 THEN Ok(<<>>)
        ELSE Go(Split(lines[1], <<TAB>>), LineTags(Tail(lines)))

RECURSIVE LineTagsAll(_)
LineTagsAll(lines) ==
    LET Go(parts, rest) ==
            IF Len(parts) # NCOLS THEN Unpack(Len(parts))
            ELSE IF ~rest.ok THEN rest
            ELSE IF Contains(parts[1], <<".">>)
            THEN rest
            ELSE Ok(<<simplify_tag(parts[10])>> \o rest.val)
    IN  IF Len(lines) = 0 THEN Ok(<<>>)
        ELSE Go(Split(lines[1], <<TAB>>), LineTagsAll(Tail(lines)))

get_entities_RangeKept(lines) ==
    LET Go(iob) == IF ~iob.ok THEN iob ELSE iob_to_biluo(iob.val)
    IN  Go(LineTagsAll(lines))

get_entities_Swallow(lines) ==
    LET Out(iob, out) ==
            IF out.ok THEN out ELSE Ok([i \in 1..Len(iob.val) |-> sO])
        Go(iob) == IF ~iob.ok THEN iob ELSE Out(iob, iob_to_biluo(iob.val))
    IN  Go(LineTags(lines))

get_entities(lines) ==
    LET Go(iob) == IF ~iob.ok THEN iob ELSE iob_to_biluo(iob.val)
    IN  Go(LineTags(lines))

-----------------------------------------------------------------------------
(* example_from_conllu_sentence, lines 181-219: the walk over the lines *)

sROOT == <<"R", "O", "O", "T">>
sroot == <<"r", "o", "o", "t">>

\* the locals before the loop
Walk0 ==
    [words |-> <<>>, spaces |-> <<>>, lemmas |-> <<>>, tags |-> <<>>,
     poss |-> <<>>, morphs |-> <<>>, heads |-> <<>>, deps |-> <<>>,
     subtok_word |-> <<>>, in_subtok |-> FALSE, subtok_end |-> <<>>]

\* an ordinary line that leaves inside-span mode on at the range's end id
WordLine_KeepSpan(w, parts) ==
    LET id_ == parts[1]
        word == parts[2]
        head == parts[7]
        misc == parts[10]
        own == PyInt(id_) - 1
    IN  IF ~IsInt(id_) THEN Raise("ValueError", "int", Len(w.words))
        ELSE IF head # <<"0">> /\ ~IsInt(head)
        THEN Raise("ValueError", "int", Len(w.words))
        ELSE Ok([w EXCEPT
            !.words = Append(@, IF ~w.in_subtok THEN word ELSE w.subtok_word),
            !.heads = Append(@, IF head # <<"0">> THEN PyInt(head) - 1 ELSE own),
            !.tags = Append(@, IF parts[5] = <<"_">> THEN parts[4] ELSE parts[5]),
            !.morphs = Append(@, IF parts[6] # <<"_">> THEN parts[6] ELSE <<>>),
            !.deps = Append(@, IF parts[8] = sroot THEN sROOT ELSE parts[8]),
            !.lemmas = Append(@, parts[3]),
            !.poss = Append(@, parts[4]),
            !.spaces = Append(@, ~Contains(misc, sSpaceAfterNo))])

\* lines 198-219: an ordinary line
WordLine(w, parts) ==
    LET id_ == parts[1]
        word == parts[2]
        head == parts[7]
        misc == parts[10]
        own == PyInt(id_) - 1
    IN  IF ~IsInt(id_) THEN Raise("ValueError", "int", Len(w.words))
        ELSE IF head # <<"0">> /\ ~IsInt(head)
        THEN Raise("ValueError", "int", Len(w.words))
        ELSE Ok([w EXCEPT
            !.words = Append(@, IF ~w.in_subtok THEN word ELSE w.subtok_word),
            !.subtok_word = IF w.in_subtok /\ id_ = w.subtok_end THEN <<>> ELSE @,
            !.in_subtok = IF w.in_subtok /\ id_ = w.subtok_end THEN FALSE ELSE @,
            !.heads = Append(@, IF head # <<"0">> THEN PyInt(head) - 1 ELSE own),
            !.tags = Append(@, IF parts[5] = <<"_">> THEN parts[4] ELSE parts[5]),
            !.morphs = Append(@, IF parts[6] # <<"_">> THEN parts[6] ELSE <<>>),
            !.deps = Append(@, IF parts[8] = sroot THEN sROOT ELSE parts[8]),
            !.lemmas = Append(@, parts[3]),
            !.poss = Append(@, parts[4]),
            !.spaces = Append(@, ~Contains(misc, sSpaceAfterNo))])

\* lines 186-219: one iteration of the loop
WalkLine(w, line, merge_subtokens) ==
    LET parts == Split(line, <<TAB>>)
        id_ == parts[1]
        ends == Split(id_, <<"-">>)
    IN  IF Len(parts) # NCOLS THEN Unpack(Len(parts))
        ELSE IF Contains(id_, <<".">>) THEN Ok(w)
        ELSE IF Contains(id_, <<"-">>)
        THEN IF Len(ends) # 2 THEN Unpack(Len(ends))
             ELSE Ok([w EXCEPT
                 !.in_subtok = IF merge_subtokens THEN TRUE ELSE @,
                 !.subtok_word = parts[2],
                 !.subtok_end = ends[2]])
        ELSE WordLine(w, parts)

RECURSIVE WalkLines(_, _, _)
WalkLines(w, lines, merge_subtokens) ==
    LET Go(r) == IF ~r.ok THEN r
                 ELSE WalkLines(r.val, Tail(lines), merge_subtokens)
    IN  IF Len(lines) = 0 THEN Ok(w)
        ELSE Go(WalkLine(w, lines[1], merge_subtokens))

-----------------------------------------------------------------------------
(* example_from_conllu_sentence, lines 221-235: the Doc *)

\* seq[i] for a Python index i; -1 when it is out of range
PyIndex(i, n) ==
    IF i >= 0 /\ i < n THEN i
    ELSE IF i < 0 /\ i + n >= 0 THEN i + n
    ELSE -1

\* the tokens of Doc(vocab, words, spaces) after the attribute loop; head is
\* the index of the head token
DocTokens(w) ==
    [ i \in 1..Len(w.words) |->
        [orth |-> w.words[i], space |-> w.spaces[i],
         tag |-> w.tags[i], pos |-> w.poss[i], dep |-> w.deps[i],
         lemma |-> w.lemmas[i],
         head |-> PyIndex(w.heads[i], Len(w.words)),
         merged_orth |-> w.words[i], merged_morph |-> w.morphs[i],
         merged_lemma |-> w.lemmas[i], merged_spaceafter |-> w.spaces[i]] ]

\* lines 181-231: the Doc before the entities are set
BuildDoc(lines, merge_subtokens) ==
    LET Heads(toks, bad) ==
            IF bad # {} THEN Raise("IndexError", "doc[heads[i]]", SetMin(bad) - 1)
            ELSE Ok(toks)
        Tokens(toks) == Heads(toks, { i \in 1..Len(toks) : toks[i].head = -1 })
        Go(r) == IF ~r.ok THEN r ELSE Tokens(DocTokens(r.val))
    IN  Go(WalkLines(Walk0, lines, merge_subtokens))

-----------------------------------------------------------------------------
(* merge_conllu_subtokens, lines 272-295: the merged attributes *)

\* doc[start:stop] as the pair <<a, b>>: the tokens a+1..b (1-based)
PySlice(start, stop, n) ==
    LET s0 == IF start < 0 THEN start + n ELSE start
        a == IF s0 < 0 THEN 0 ELSE IF s0 > n THEN n ELSE s0
        e0 == IF stop < 0 THEN stop + n ELSE stop
        b == IF e0 < a THEN a ELSE IF e0 > n THEN n ELSE e0
    IN  <<a, b>>

\* the features of the span's tokens, split at "|"
SpanMorphs(toks, a, b) ==
    UNION { { Split(toks[p].merged_morph, <<"|">>)[k] :
                k \in 1..Len(Split(toks[p].merged_morph, <<"|">>)) } :
            p \in { q \in (a + 1)..b : toks[q].merged_morph # <<>> } }

\* the merged space-after taken from the span's first token
SetSpanAttrs_FirstSpace(toks, a, b) ==
    LET tags == [ k \in 1..(b - a) |-> toks[a + k].tag ]
        morphs == SpanMorphs(toks, a, b)
    IN  [ p \in 1..Len(toks) |->
            IF p > a /\ p <= b
            THEN [toks[p] EXCEPT
                    !.merged_orth = toks[p].orth,
                    !.merged_lemma = toks[p].orth,
                    !.tag = Join(tags, <<"_">>),
                    !.merged_morph = Join(SortedStrs(morphs), <<"|">>),
                    !.merged_spaceafter = toks[a + 1].space]
            ELSE toks[p] ]

\* lines 282-295: the same attributes on every token of the span
SetSpanAttrs(toks, a, b) ==
    LET tags == [ k \in 1..(b - a) |-> toks[a + k].tag ]
        morphs == SpanMorphs(toks, a, b)
    IN  [ p \in 1..Len(toks) |->
            IF p > a /\ p <= b
            THEN [toks[p] EXCEPT
                    !.merged_orth = toks[p].orth,
                    !.merged_lemma = toks[p].orth,
                    !.tag = Join(tags, <<"_">>),
                    !.merged_morph = Join(SortedStrs(morphs), <<"|">>),
                    !.merged_spaceafter = toks[b].space]
            ELSE toks[p] ]

\* lines 273-295: the loop over the lines; m = [tokens, subtok_spans]
RECURSIVE MergeAttrs(_, _)
MergeAttrs(m, lines) ==
    IF Len(lines) = 0 THEN Ok(m)
    ELSE LET parts == Split(lines[1], <<TAB>>)
             id_ == parts[1]
             ends == Split(id_, <<"-">>)
             sp == PySlice(PyInt(ends[1]) - 1, PyInt(ends[2]), Len(m.tokens))
         IN  IF Len(parts) # NCOLS THEN Unpack(Len(parts))
             ELSE IF ~Contains(id_, <<"-">>) THEN MergeAttrs(m, Tail(lines))
             ELSE IF Len(ends) # 2 THEN Unpack(Len(ends))
             ELSE IF ~IsInt(ends[1]) \/ ~IsInt(ends[2])
             THEN Raise("ValueError", "int", 0)
             ELSE MergeAttrs(
                    [tokens |-> SetSpanAttrs(m.tokens, sp[1], sp[2]),
                     subtok_spans |-> Append(m.subtok_spans, sp)],
                    Tail(lines))

-----------------------------------------------------------------------------
(* doc.retokenize() / retokenizer.merge (spacy.tokens): each span becomes  *)
(* one token that carries the merged attributes.                           *)

SpanOf(spans, p) ==
    LET hit == { k \in 1..Len(spans) : p > spans[k][1] /\ p <= spans[k][2] }
    IN  IF hit = {} THEN <<p - 1, p>> ELSE spans[SetMin(hit)]

\* the 1-based index, after the merge, of the token that holds old token p
NewIndex(spans, p) ==
    Cardinality({ q \in 1..(SpanOf(spans, p)[1] + 1) : SpanOf(spans, q)[1] = q - 1 })

\* the token of the span whose head lies outside it (or is itself)
SpanRoot(toks, a, b) ==
    LET out == { p \in (a + 1)..b :
                   toks[p].head + 1 = p \/ toks[p].head + 1 <= a \/ toks[p].head + 1 > b }
    IN  IF out = {} THEN a + 1 ELSE SetMin(out)

\* the text of the span's tokens
RECURSIVE SpanText(_, _, _)
SpanText(toks, a, b) ==
    IF b <= a THEN <<>>
    ELSE toks[a + 1].orth
         \o (IF toks[a + 1].space /\ b > a + 1 THEN <<" ">> ELSE <<>>)
         \o SpanText(toks, a + 1, b)

\* tags of the entities (BILUO) carried over to the merged tokens
MergedEnts(spans, ents, n) ==
    LET starts == { i \in 1..Len(ents) : TagPrefix(ents[i]) \in {<<"B">>, <<"U">>} }
        EndOf(i) == IF TagPrefix(ents[i]) = <<"U">> THEN i
                    ELSE SetMin({ j \in i..Len(ents) : TagPrefix(ents[j]) = <<"L">> })
        At(k) == { i \in starts :
                     NewIndex(spans, i) <= k /\ k <= NewIndex(spans, EndOf(i)) }
    IN  [ k \in 1..n |->
            IF At(k) = {} THEN sO
            ELSE LET i == SetMin(At(k))
                     s == NewIndex(spans, i)
                     e == NewIndex(spans, EndOf(i))
                 IN  (IF s = e THEN <<"U", "-">>
                      ELSE IF k = s THEN <<"B", "-">>
                      ELSE IF k = e THEN <<"L", "-">>
                      ELSE <<"I", "-">>) \o TagLabel(ents[i]) ]

Retokenize(doc, spans) ==
    LET toks == doc.tokens
        empty == { k \in 1..Len(spans) : spans[k][2] <= spans[k][1] }
        clash == { k \in 1..Len(spans) : \E j \in 1..(k - 1) :
                     spans[j][1] < spans[k][2] /\ spans[k][1] < spans[j][2] }
        keep == { p \in 1..Len(toks) : SpanOf(spans, p)[1] = p - 1 }
        n == Cardinality(keep)
        Old(k) == CHOOSE p \in keep : NewIndex(spans, p) = k
        merged == [ k \in 1..n |->
            LET p == Old(k)
                sp == SpanOf(spans, p)
                root == toks[SpanRoot(toks, sp[1], sp[2])]
            IN  [toks[p] EXCEPT
                    !.orth = SpanText(toks, sp[1], sp[2]),
                    !.space = toks[sp[2]].space,
                    !.tag = root.tag, !.pos = root.pos, !.dep = root.dep,
                    !.lemma = root.lemma,
                    !.head = NewIndex(spans, root.head + 1) - 1] ]
    IN  IF empty # {} THEN Raise("ValueError", "retokenizer.merge", SetMin(empty) - 1)
        ELSE IF clash # {} THEN Raise("ValueError", "retokenizer.merge", SetMin(clash) - 1)
        ELSE Ok([tokens |-> merged,
                 ents |-> MergedEnts(spans, doc.ents, n)])

-----------------------------------------------------------------------------
(* example_from_conllu_sentence, lines 240-267: the Example *)

\* sorted(list): the least element first, duplicates kept
RECURSIVE SortedList(_)
SortedList(l) ==
    IF Len(l) = 0 THEN <<>>
    ELSE LET k == CHOOSE i \in 1..Len(l) :
                    \A j \in 1..Len(l) : ~StrLess(l[j], l[i])
         IN  <<l[k]>> \o SortedList(SubSeq(l, 1, k - 1) \o SubSeq(l, k + 1, Len(l)))

\* the raw text: each word, then a space iff its space-after flag is set
RECURSIVE RawText(_, _)
RawText(words, spaces) ==
    IF Len(words) = 0 THEN <<>>
    ELSE words[1] \o (IF spaces[1] THEN <<" ">> ELSE <<>>)
         \o RawText(Tail(words), Tail(spaces))

MakeExample(doc, use_morphology) ==
    LET toks == doc.tokens
        n == Len(toks)
        words == [ i \in 1..n |-> toks[i].merged_orth ]
        spaces == [ i \in 1..n |-> toks[i].merged_spaceafter ]
    IN  [text |-> RawText(words, spaces),
         ids |-> [ i \in 1..n |-> i - 1 ],
         words |-> words,
         tags |-> [ i \in 1..n |->
            IF use_morphology /\ toks[i].merged_morph # <<>>
            THEN toks[i].tag \o <<"_", "_">>
                 \o Join(SortedList(Split(toks[i].merged_morph, <<"|">>)), <<"|">>)
            ELSE toks[i].tag ],
         heads |-> [ i \in 1..n |-> toks[i].head ],
         deps |-> [ i \in 1..n |-> toks[i].dep ],
         entities |-> doc.ents,
         spaces |-> spaces]

NotRun == Raise("None", "not run", 0)

\* merge_conllu_subtokens(lines, doc), with the tokens as they are before
\* the retokenizer runs
merge_conllu_subtokens(lines, doc) ==
    LET Go(m) ==
            [attrs |-> m,
             doc |-> IF ~m.ok THEN m
                     ELSE Retokenize([doc EXCEPT !.tokens = m.val.tokens],
                                     m.val.subtok_spans)]
    IN  Go(MergeAttrs([tokens |-> doc.tokens, subtok_spans |-> <<>>], lines))

\* example_from_conllu_sentence as the record of its steps: the result of
\* get_entities (line 232), the tokens merge_conllu_subtokens prepared
\* (lines 272-295), and in "out" what the function returns or raises
ExampleSteps(lines, merge_subtokens, use_morphology) ==
    LET Out(d0, ents, mg) ==
            [ents |-> ents,
             attrs |-> mg.attrs,
             out |-> IF ~d0.ok THEN d0
                     ELSE IF ~ents.ok THEN ents
                     ELSE IF ~mg.doc.ok THEN mg.doc
                     ELSE Ok(MakeExample(mg.doc.val, use_morphology))]
        Merge(d0, ents) ==
            Out(d0, ents,
                IF ~d0.ok \/ ~ents.ok THEN [attrs |-> NotRun, doc |-> NotRun]
                ELSE IF merge_subtokens
                THEN merge_conllu_subtokens(lines, [tokens |-> d0.val, ents |-> ents.val])
                ELSE [attrs |-> NotRun,
                      doc |-> Ok([tokens |-> d0.val, ents |-> ents.val])])
        Ents(d0) == Merge(d0, IF d0.ok THEN get_entities(lines) ELSE NotRun)
    IN  Ents(BuildDoc(lines, merge_subtokens))

example_from_conllu_sentence(lines, merge_subtokens, use_morphology) ==
    ExampleSteps(lines, merge_subtokens, use_morphology).out

-----------------------------------------------------------------------------
(* generate_sentence, create_json_doc *)

generate_sentence_OneBased(token_annotation, has_ner_tags) ==
    [tokens |-> [ i \in 1..Len(token_annotation.ids) |->
        LET id == token_annotation.ids[i]
            token == [id |-> id + 1,
                      orth |-> token_annotation.words[i],
                      tag |-> token_annotation.tags[i],
                      head |-> token_annotation.heads[i] - id,
                      dep |-> token_annotation.deps[i]]
        IN  IF has_ner_tags
            THEN [id |-> token.id, orth |-> token.orth, tag |-> token.tag,
                  head |-> token.head, dep |-> token.dep,
                  ner |-> token_annotation.entities[i]]
            ELSE token ]]

generate_sentence_AbsHead(token_annotation, has_ner_tags) ==
    [tokens |-> [ i \in 1..Len(token_annotation.ids) |->
        LET id == token_annotation.ids[i]
            token == [id |-> id,
                      orth |-> token_annotation.words[i],
                      tag |-> token_annotation.tags[i],
                      head |-> token_annotation.heads[i],
                      dep |-> token_annotation.deps[i]]
        IN  IF has_ner_tags
            THEN [id |-> token.id, orth |-> token.orth, tag |-> token.tag,
                  head |-> token.head, dep |-> token.dep,
                  ner |-> token_annotation.entities[i]]
            ELSE token ]]

generate_sentence(token_annotation, has_ner_tags) ==
    [tokens |-> [ i \in 1..Len(token_annotation.ids) |->
        LET id == token_annotation.ids[i]
            token == [id |-> id,
                      orth |-> token_annotation.words[i],
                      tag |-> token_annotation.tags[i],
                      head |-> token_annotation.heads[i] - id,
                      dep |-> token_annotation.deps[i]]
        IN  IF has_ner_tags
            THEN [id |-> token.id, orth |-> token.orth, tag |-> token.tag,
                  head |-> token.head, dep |-> token.dep,
                  ner |-> token_annotation.entities[i]]
            ELSE token ]]

create_json_doc_OneBased(raw, sentences, id_) ==
    [id |-> id_ + 1,
     paragraphs |-> << [raw |-> Strip(raw), sentences |-> sentences] >>]

create_json_doc_Unstripped(raw, sentences, id_) ==
    [id |-> id_, paragraphs |-> <<[raw |-> raw, sentences |-> sentences]>>]

create_json_doc(raw, sentences, id_) ==
    [id |-> id_,
     paragraphs |-> << [raw |-> Strip(raw), sentences |-> sentences] >>]

-----------------------------------------------------------------------------
(* has_ner, read_conllx *)

\* while lines[0].startswith("#"): lines.pop(0)
RECURSIVE DropComments(_)
DropComments(lines) ==
    IF Len(lines) = 0 THEN Raise("IndexError", "lines[0]", 0)
    ELSE IF StartsWith(lines[1], <<"#">>) THEN DropComments(Tail(lines))
    ELSE Ok(lines)

\* input_data.strip().split("\n\n")
Sents(input_data) == Split(Strip(input_data), <<NL, NL>>)

\* the answer taken from the last line of the first sentence
has_ner_LastLine(input_data) ==
    LET First(parts) ==
            IF Len(parts) # NCOLS THEN Unpack(Len(parts))
            ELSE Ok(ReSearch(parts[10]).matched)
        Go(lines) == IF ~lines.ok THEN lines
                     ELSE First(Split(lines.val[Len(lines.val)], <<TAB>>))
    IN  Go(DropComments(Split(Strip(Sents(input_data)[1]), <<NL>>)))

has_ner(input_data) ==
    LET First(parts) ==
            IF Len(parts) # NCOLS THEN Unpack(Len(parts))
            ELSE Ok(ReSearch(parts[10]).matched)
        Go(lines) == IF ~lines.ok THEN lines
                     ELSE First(Split(lines.val[1], <<TAB>>))
    IN  Go(DropComments(Split(Strip(Sents(input_data)[1]), <<NL>>)))

\* the k-th example read_conllx yields (k from 1), or the exception
read_conllx(input_data, k, use_morphology, merge_subtokens) ==
    LET Go(lines) ==
            IF ~lines.ok THEN lines
            ELSE example_from_conllu_sentence(lines.val, merge_subtokens, use_morphology)
    IN  Go(DropComments(Split(Strip(Sents(input_data)[k]), <<NL>>)))

-----------------------------------------------------------------------------
(* Bounds *)

\* the most lines a sentence is given
MaxLines == 4

\* the most sentences a corpus is given
MaxSents == 3

\* the largest batch size n_sents
MaxBatch == 3

-----------------------------------------------------------------------------
(* SpecTag: simplify_tag over a family of misc columns *)

\* what may stand before the entity annotation in a misc column
MiscLead == { <<>>, <<"|">>, sNAME, sSpaceAfterNo \o <<"|">> }

\* the annotation itself: the tags, the placeholder, a lower-case value
MiscCore ==
    { <<"_">>, sO, <<"x">>,
      <<"B", "-">> \o sPER, <<"I", "-">> \o sLOC, <<"B", "-">> \o sORG,
      <<"B", "-">> \o sGPE_LOC, <<"I", "-">> \o sGPE_ORG,
      <<"B", "-", "N", "O", "R", "P">>, <<"B", "-", "p">>,
      <<"X", "Y", "-">> \o sPER }

\* what may follow it
MiscTrail == { <<>>, <<"|">>, <<"|">> \o sSpaceAfterNo, <<"X">> }

TagInit ==
    /\ tmisc \in { a \o b \o c : a \in MiscLead, b \in MiscCore, c \in MiscTrail }
    /\ tag_out = <<>>
    /\ tpc = "in"

TagIdle ==
    /\ tmisc = <<>>
    /\ tag_out = <<>>
    /\ tpc = "out"

\* one call of simplify_tag(misc, MISC_NER_PATTERN)
SimplifyTag ==
    /\ tpc = "in"
    /\ tag_out' = simplify_tag(tmisc)
    /\ tpc' = "out"
    /\ UNCHANGED tmisc

-----------------------------------------------------------------------------
(* SpecSentence: one sentence, written line by line, then converted *)

IdStr(n) == <<Digits[n + 1]>>

\* a 10-column line; lemma and column 9 are placeholders
Cols(id_, word, pos, tag, morph, head, dep, mi) ==
    <<id_, word, <<"_">>, pos, tag, morph, head, dep, <<"_">>, mi>>

sADP == <<"A", "D", "P">>
sDET == <<"D", "E", "T">>
sdet == <<"d", "e", "t">>

NWords(cols) == Cardinality({ k \in 1..Len(cols) : cols[k].kind = "word" })

\* the end id of the last range line written, 0 when there is none
OpenEnd(cols) ==
    LET rs == { k \in 1..Len(cols) : cols[k].kind = "range" }
    IN  IF rs = {} THEN 0 ELSE cols[SetMax(rs)].stop

Modes == {"ent", "merge", "head"}

\* the misc columns of the "ent" family
EntMisc ==
    { <<"_">>, <<"B", "-">> \o sPER, <<"I", "-">> \o sPER,
      <<"I", "-">> \o sGPE_LOC }

\* tag, pos, morph and misc of the "merge" family
MergeShapes ==
    { <<sADP, <<"_">>, <<"_">>, <<"_">>>>,
      <<sDET, sDET, <<"B", "=", "x", "|", "A", "=", "y">>, sSpaceAfterNo>>,
      <<sADP, sADP, <<"B", "=", "x">>, <<"_">>>>,
      <<sDET, <<"_">>, <<"C", "=", "z", "|", "B", "=", "x">>, sSpaceAfterNo>> }

\* the word lines that may come next: their id is the next word id
WordChoices(mode, n) ==
    IF mode = "ent"
    THEN { Cols(IdStr(n + 1), <<"w">>, sADP, <<"_">>, <<"_">>, <<"0">>, sroot, mi) :
             mi \in EntMisc }
    ELSE IF mode = "merge"
    THEN { Cols(IdStr(n + 1), <<"d", IdStr(n + 1)[1]>>, sh[1], sh[2], sh[3],
                <<"0">>, sroot, sh[4]) : sh \in MergeShapes }
    ELSE { Cols(IdStr(n + 1), <<"w">>, sADP, <<"_">>, <<"_">>, <<"0">>, sroot, <<"_">>) }
         \cup { Cols(IdStr(n + 1), <<"w">>, sDET, sDET, <<"_">>, IdStr(h), sdet, <<"_">>) :
                  h \in {1, n + 2} }

\* the range lines that may come next: start-stop from the next word id
RangeStops(mode, n) ==
    IF mode = "merge" THEN {n + 2, n + 3} ELSE {n + 2}

RangeCols(n, stop) ==
    Cols(IdStr(n + 1) \o <<"-">> \o IdStr(stop), <<"a", "b">>, <<"_">>, <<"_">>,
         <<"_">>, <<"_">>, <<"_">>, <<"B", "-">> \o sPER)

\* a decimal sub-id line after word n
DecimalCols(n) ==
    Cols(IdStr(n) \o <<".", "1">>, <<"e">>, <<"_">>, <<"_">>, <<"_">>, <<"_">>,
         <<"_">>, <<"I", "-">> \o sPER)

SentInit ==
    /\ smode \in Modes
    /\ scols = <<>>
    /\ slines = <<>>
    /\ spc = "build"
    /\ s_merge = FALSE
    /\ s_morph = FALSE
    /\ s_ents = NotRun
    /\ s_attrs = NotRun
    /\ s_example = NotRun
    /\ s_sentence = [tokens |-> <<>>]

SentIdle ==
    /\ smode = "none"
    /\ scols = <<>>
    /\ slines = <<>>
    /\ spc = "parsed"
    /\ s_merge = FALSE
    /\ s_morph = FALSE
    /\ s_ents = NotRun
    /\ s_attrs = NotRun
    /\ s_example = NotRun
    /\ s_sentence = [tokens |-> <<>>]

Written(kind, cols, stop) ==
    /\ scols' = Append(scols, [kind |-> kind, cols |-> cols, stop |-> stop])
    /\ slines' = Append(slines, Join(cols, <<TAB>>))
    /\ UNCHANGED <<smode, spc, s_merge, s_morph, s_ents, s_attrs, s_example,
                   s_sentence>>

\* the input gets a word line
AddWord ==
    /\ spc = "build" /\ Len(scols) < MaxLines
    /\ \E cols \in WordChoices(smode, NWords(scols)) : Written("word", cols, 0)

\* the input gets a range line; ranges do not overlap
AddRange ==
    /\ spc = "build" /\ Len(scols) < MaxLines
    /\ OpenEnd(scols) <= NWords(scols)
    /\ \E stop \in RangeStops(smode, NWords(scols)) :
          Written("range", RangeCols(NWords(scols), stop), stop)

\* the input gets a decimal sub-id line
AddDecimal ==
    /\ spc = "build" /\ Len(scols) < MaxLines
    /\ smode # "merge"
    /\ Written("decimal", DecimalCols(NWords(scols)), 0)

\* the input gets a line of 9 columns
AddRagged ==
    /\ spc = "build" /\ Len(scols) < MaxLines
    /\ smode = "head"
    /\ Written("ragged",
               SubSeq(Cols(IdStr(NWords(scols) + 1), <<"w">>, sADP, <<"_">>,
                           <<"_">>, <<"0">>, sroot, <<"_">>), 1, 9), 0)

\* the sentence is converted as a corpus of one sentence
Convert ==
    /\ spc = "build" /\ Len(slines) > 0
    /\ \E merge \in {smode = "merge"},
          morph \in (IF smode = "merge" THEN BOOLEAN ELSE {FALSE}) :
        LET Go(ner, st) ==
                /\ s_merge' = merge
                /\ s_morph' = morph
                /\ s_example' = IF ~ner.ok THEN ner ELSE st.out
                /\ s_ents' = IF ner.ok THEN st.ents ELSE NotRun
                /\ s_attrs' = IF ner.ok THEN st.attrs ELSE NotRun
                /\ s_sentence' = IF ner.ok /\ st.out.ok
                                 THEN generate_sentence(st.out.val, ner.val)
                                 ELSE [tokens |-> <<>>]
        IN  Go(has_ner(Join(slines, <<NL>>)), ExampleSteps(slines, merge, morph))
    /\ spc' = "parsed"
    /\ UNCHANGED <<smode, scols, slines>>

-----------------------------------------------------------------------------
(* Spec: conllu2json over a corpus of sentences *)

sHi == <<"H", "i">>
sBob == <<"B", "o", "b">>

\* the sentences a corpus is made of: leading comment lines, then the lines
Pool ==
    [plain |->
        [comments |-> << <<"#", " ", "s">> >>,
         rows |-> << Cols(<<"1">>, sHi, sADP, <<"_">>, <<"_">>, <<"0">>, sroot, <<"_">>),
                     Cols(<<"2">>, sBob, sDET, sDET, <<"_">>, <<"1">>, sdet,
                          <<"B", "-">> \o sLOC) >>],
     ner |->
        [comments |-> <<>>,
         rows |-> << Cols(<<"1">>, <<"a">>, sADP, <<"_">>, <<"_">>, <<"2">>, sdet,
                          <<"B", "-">> \o sPER),
                     Cols(<<"2">>, <<"b">>, sDET, sDET, <<"_">>, <<"0">>, sroot,
                          sSpaceAfterNo \o <<"|", "I", "-">> \o sPER) >>],
     range |->
        [comments |-> <<>>,
         rows |-> << Cols(<<"1", "-", "2">>, <<"d", "e", "l">>, <<"_">>, <<"_">>,
                          <<"_">>, <<"_">>, <<"_">>, <<"_">>),
                     Cols(<<"1">>, <<"d", "e">>, sADP, <<"_">>, <<"A", "=", "y">>,
                          <<"2">>, sdet, <<"_">>),
                     Cols(<<"2">>, <<"e", "l">>, sDET, sDET, <<"_">>, <<"0">>, sroot,
                          <<"_">>) >>],
     one |->
        [comments |-> <<>>,
         rows |-> << Cols(<<"1">>, <<"c">>, sADP, <<"_">>, <<"_">>, <<"0">>, sroot,
                          sSpaceAfterNo \o <<"|", "O">>) >>],
     ragged |->
        [comments |-> <<>>,
         rows |-> << SubSeq(Cols(<<"1">>, <<"x">>, sADP, <<"_">>, <<"_">>, <<"0">>, sroot,
                                 <<"_">>), 1, 9),
                     Cols(<<"2">>, <<"y">>, sDET, sDET, <<"_">>, <<"1">>, sdet, <<"_">>) >>]]

PoolNames == DOMAIN Pool

\* the text of one sentence: its lines, one per row
SentText(name) ==
    Join(Pool[name].comments
         \o [ k \in 1..Len(Pool[name].rows) |-> Join(Pool[name].rows[k], <<TAB>>) ],
         <<NL>>)

\* the text of a corpus: blank-line-separated sentences and a final newline
CorpusText(names) ==
    Join([ k \in 1..Len(names) |-> SentText(names[k]) ], <<NL, NL>>) \o <<NL>>

NoError == [exc |-> "None", what |-> "none", at |-> 0]

ConvInit ==
    /\ \E k \in 1..MaxSents : corpus \in [1..k -> PoolNames]
    /\ c_input = CorpusText(corpus)
    /\ c_n_sents \in 1..MaxBatch
    /\ c_merge \in BOOLEAN
    /\ c_morph = FALSE
    /\ cpc = "start"
    /\ c_has_ner = FALSE
    /\ c_i = -1
    /\ c_raw = <<>>
    /\ c_sentences = <<>>
    /\ c_docs = <<>>
    /\ returned = [done |-> FALSE, docs |-> <<>>]
    /\ error = NoError
    /\ yielded = <<>>

ConvIdle ==
    /\ corpus = <<>>
    /\ c_input = <<>>
    /\ c_n_sents = 1
    /\ c_merge = FALSE
    /\ c_morph = FALSE
    /\ cpc = "idle"
    /\ c_has_ner = FALSE
    /\ c_i = -1
    /\ c_raw = <<>>
    /\ c_sentences = <<>>
    /\ c_docs = <<>>
    /\ returned = [done |-> FALSE, docs |-> <<>>]
    /\ error = NoError
    /\ yielded = <<>>

\* the exception leaves conllu2json: nothing is returned
Raised(e) ==
    /\ cpc' = "raised"
    /\ error' = e
    /\ UNCHANGED <<c_has_ner, c_i, c_raw, c_sentences, c_docs, returned, yielded>>

\* lines 29-35
Start ==
    /\ cpc = "start"
    /\ LET Go(ner) ==
               IF ~ner.ok THEN Raised(ner.err)
               ELSE /\ c_has_ner' = ner.val
                    /\ cpc' = "loop"
                    /\ UNCHANGED <<c_i, c_raw, c_sentences, c_docs, returned, error, yielded>>
       IN  Go(has_ner(c_input))
    /\ UNCHANGED <<corpus, c_input, c_n_sents, c_merge, c_morph>>

\* line 42 with no document made while the batch is one short
FlushDue_Late(sents) == Len(sents) % c_n_sents = 0 /\ Len(sents) > c_n_sents

\* line 42
FlushDue(sents) == Len(sents) % c_n_sents = 0

\* lines 37-46: the loop body for the example the generator yielded
Body(example) ==
    LET Go(raw2, sents2) ==
            /\ IF FlushDue(sents2)
               THEN /\ c_docs' = Append(c_docs, create_json_doc(raw2, sents2, c_i + 1))
                    /\ c_raw' = <<>>
                    /\ c_sentences' = <<>>
               ELSE /\ c_raw' = raw2
                    /\ c_sentences' = sents2
                    /\ UNCHANGED c_docs
            /\ c_i' = c_i + 1
            /\ yielded' = Append(yielded, example)
            /\ UNCHANGED <<cpc, c_has_ner, returned, error>>
    IN  Go(c_raw \o example.text,
           Append(c_sentences, generate_sentence(example, c_has_ner)))

\* a sentence that raises is left out and the loop goes on
Iterate_Swallow ==
    /\ cpc = "loop"
    /\ c_i + 1 < Len(Sents(c_input))
    /\ LET Go(ex) ==
               IF ~ex.ok
               THEN /\ c_i' = c_i + 1
                    /\ UNCHANGED <<cpc, c_has_ner, c_raw, c_sentences, c_docs, returned,
                                   error, yielded>>
               ELSE Body(ex.val)
       IN  Go(read_conllx(c_input, c_i + 2, c_morph, c_merge))
    /\ UNCHANGED <<corpus, c_input, c_n_sents, c_merge, c_morph>>

\* line 36 and the body: the generator yields the next example or raises
Iterate ==
    /\ cpc = "loop"
    /\ c_i + 1 < Len(Sents(c_input))
    /\ LET Go(ex) == IF ~ex.ok THEN Raised(ex.err) ELSE Body(ex.val)
       IN  Go(read_conllx(c_input, c_i + 2, c_morph, c_merge))
    /\ UNCHANGED <<corpus, c_input, c_n_sents, c_merge, c_morph>>

\* lines 47-50: the generator is exhausted
Finish ==
    /\ cpc = "loop"
    /\ c_i + 1 = Len(Sents(c_input))
    /\ LET Go(out) ==
               /\ c_docs' = out
               /\ returned' = [done |-> TRUE, docs |-> out]
       IN  Go(IF c_sentences # <<>>
              THEN Append(c_docs, create_json_doc(c_raw, c_sentences, c_i))
              ELSE c_docs)
    /\ cpc' = "done"
    /\ UNCHANGED <<c_has_ner, c_i, c_raw, c_sentences, error, yielded>>
    /\ UNCHANGED <<corpus, c_input, c_n_sents, c_merge, c_morph>>

-----------------------------------------------------------------------------
(* Specifications *)

vars == <<tagVars, sentVars, convVars>>

Init == ConvInit /\ TagIdle /\ SentIdle

Next ==
    \/ Start /\ UNCHANGED <<tagVars, sentVars>>
    \/ Iterate /\ UNCHANGED <<tagVars, sentVars>>
    \/ Finish /\ UNCHANGED <<tagVars, sentVars>>

Spec == Init /\ [][Next]_vars

InitTag == TagInit /\ SentIdle /\ ConvIdle

NextTag == SimplifyTag /\ UNCHANGED <<sentVars, convVars>>

SpecTag == InitTag /\ [][NextTag]_vars

InitSentence == SentInit /\ TagIdle /\ ConvIdle

NextSentence ==
    \/ AddWord /\ UNCHANGED <<tagVars, convVars>>
    \/ AddRange /\ UNCHANGED <<tagVars, convVars>>
    \/ AddDecimal /\ UNCHANGED <<tagVars, convVars>>
    \/ AddRagged /\ UNCHANGED <<tagVars, convVars>>
    \/ Convert /\ UNCHANGED <<tagVars, convVars>>

SpecSentence == InitSentence /\ [][NextSentence]_vars

-----------------------------------------------------------------------------
(* Properties *)

\* C4: simplify_tag returns "O" when the pattern has no match in misc or
\* its match is the literal O; when the match is PREFIX-TYPE it returns the
\* prefix unchanged, a hyphen, and LOC for GPE_LOC, ORG for GPE_ORG, the
\* type itself for PER, LOC and ORG, MISC for any other type.
C4_SimplifyTag ==
    tpc = "out" =>
        LET m == ReSearch(tmisc)
            T == CASE m.suffix = sGPE_LOC -> sLOC
                   [] m.suffix = sGPE_ORG -> sORG
                   [] m.suffix = sPER -> sPER
                   [] m.suffix = sLOC -> sLOC
                   [] m.suffix = sORG -> sORG
                   [] OTHER -> sMISC
        IN  /\ (~m.matched \/ m.prefix = <<>>) => tag_out = sO
            /\ (m.matched /\ m.prefix # <<>>) => tag_out = m.prefix \o <<"-">> \o T
            /\ tmisc = <<"_">> => tag_out = sO
            /\ tmisc = sSpaceAfterNo \o <<"|", "O">> => tag_out = sO
            /\ tmisc = sNAME \o <<"I", "-">> \o sGPE_ORG => tag_out = <<"I", "-">> \o sORG
            /\ tmisc = <<"B", "-", "N", "O", "R", "P", "|">> => tag_out = <<"B", "-">> \o sMISC
            /\ tmisc = <<"|", "X", "Y", "-">> \o sPER => tag_out = <<"X", "Y", "-">> \o sPER

\* a misc column with a GPE_LOC entity among other annotations was simplified
C4_Witness ==
    /\ tpc = "out"
    /\ tmisc = <<"|", "B", "-">> \o sGPE_LOC \o <<"|">> \o sSpaceAfterNo
    /\ tag_out = <<"B", "-">> \o sLOC

\* C5: get_entities returns one BILUO tag per line whose id is neither a
\* range nor a decimal sub-id: the line's simplified tag with O kept, B-T
\* kept when an I-T follows and made U-T otherwise, I-T kept when an I-T
\* follows and made L-T otherwise.
C5_GetEntities ==
    (spc = "parsed" /\ s_ents.ok) =>
        LET ws == SelectSeq(scols, LAMBDA c : c.kind = "word")
            iob == [ k \in 1..Len(ws) |-> simplify_tag(ws[k].cols[10]) ]
            more(k) == /\ k < Len(iob)
                       /\ iob[k + 1] = <<"I", "-">> \o TagLabel(iob[k])
        IN  /\ Len(s_ents.val) = Len(ws)
            /\ \A k \in 1..Len(ws) :
                  s_ents.val[k] =
                      CASE iob[k] = sO -> sO
                        [] iob[k][1] = "B" /\ more(k) -> iob[k]
                        [] iob[k][1] = "B" /\ ~more(k) -> <<"U", "-">> \o TagLabel(iob[k])
                        [] iob[k][1] = "I" /\ more(k) -> iob[k]
                        [] OTHER -> <<"L", "-">> \o TagLabel(iob[k])

\* a range line followed by the run B-PER I-PER I-PER was converted
C5_Witness ==
    /\ spc = "parsed" /\ smode = "ent"
    /\ Len(scols) = 4 /\ scols[1].kind = "range"
    /\ s_ents = Ok(<< <<"B", "-">> \o sPER, <<"I", "-">> \o sPER, <<"L", "-">> \o sPER >>)

C7_MergedAttrs ==
    (spc = "parsed" /\ s_merge /\ s_attrs.ok) =>
        LET ws == SelectSeq(scols, LAMBDA c : c.kind = "word")
            tagOf(k) == IF ws[k].cols[5] = <<"_">> THEN ws[k].cols[4] ELSE ws[k].cols[5]
            featsOf(k) == IF ws[k].cols[6] = <<"_">> THEN {}
                          ELSE { Split(ws[k].cols[6], <<"|">>)[j] :
                                   j \in 1..Len(Split(ws[k].cols[6], <<"|">>)) }
            spaceOf(k) == ~Contains(ws[k].cols[10], sSpaceAfterNo)
            toks == s_attrs.val.tokens
        IN  \A r \in 1..Len(scols) :
              scols[r].kind = "range" =>
                LET a == NWords(SubSeq(scols, 1, r)) + 1
                    b == IF scols[r].stop < Len(ws) THEN scols[r].stop ELSE Len(ws)
                    feats == UNION { featsOf(k) : k \in a..b }
                IN  \A p \in a..b :
                      LET fs == Split(toks[p].merged_morph, <<"|">>)
                      IN  /\ toks[p].tag = Join([ k \in 1..(b - a + 1) |-> tagOf(a + k - 1) ],
                                                <<"_">>)
                          /\ feats = {} => toks[p].merged_morph = <<>>
                          /\ feats # {} =>
                                /\ { fs[j] : j \in 1..Len(fs) } = feats
                                /\ \A j \in 1..(Len(fs) - 1) : StrLess(fs[j], fs[j + 1])
                          /\ toks[p].merged_spaceafter = spaceOf(b)

\* the range 1-3 over DET (B=x|A=y), ADP (B=x) and DET (C=z|B=x, no space
\* after) gave each of its three tokens DET_ADP_DET, A=y|B=x|C=z and no space
C7_Witness ==
    /\ spc = "parsed" /\ s_merge /\ s_attrs.ok
    /\ Len(scols) = 4 /\ scols[1].kind = "range" /\ scols[1].stop = 3
    /\ \A p \in 1..3 :
          /\ s_attrs.val.tokens[p].tag = sDET \o <<"_">> \o sADP \o <<"_">> \o sDET
          /\ s_attrs.val.tokens[p].merged_morph =
                 <<"A", "=", "y", "|", "B", "=", "x", "|", "C", "=", "z">>
          /\ s_attrs.val.tokens[p].merged_spaceafter = FALSE

\* C10: for a sentence whose word lines carry the ids 1..n in order and
\* that is converted without subtoken merging, the token record of word k
\* has head 0 when the line's head column is "0" and (head id - k) otherwise.
C10_HeadOffset ==
    (spc = "parsed" /\ ~s_merge /\ s_example.ok) =>
        LET ws == SelectSeq(scols, LAMBDA c : c.kind = "word")
        IN  /\ Len(s_sentence.tokens) = Len(ws)
            /\ \A k \in 1..Len(ws) :
                  /\ ws[k].cols[1] = IdStr(k)
                  /\ s_sentence.tokens[k].id = k - 1
                  /\ s_sentence.tokens[k].head =
                         IF ws[k].cols[7] = <<"0">> THEN 0
                         ELSE PyInt(ws[k].cols[7]) - k

\* a root, a word headed by the word after it and a word headed by the
\* first word, with a decimal sub-id line among them: offsets 0, 1, -2
C10_Witness ==
    /\ spc = "parsed" /\ smode = "head" /\ s_example.ok
    /\ Len(scols) = 4
    /\ \E k \in 1..4 : scols[k].kind = "decimal"
    /\ Len(s_sentence.tokens) = 3
    /\ s_sentence.tokens[1].head = 0
    /\ s_sentence.tokens[2].head = 1
    /\ s_sentence.tokens[3].head = -2

\* C1: when conllu2json returns for a corpus of K sentences and batch size
\* N, it returns (K + N - 1) \div N documents; each but the last holds N
\* sentences, the last holds K % N or, when that is 0, N; and sentence j of
\* the corpus is sentence ((j - 1) % N) + 1 of document ((j - 1) \div N) + 1.
\* While the loop runs every document made so far holds N sentences and
\* fewer than N are pending.
C1_Batches ==
    LET K == Len(corpus)
        N == c_n_sents
        count(d) == Len(c_docs[d].paragraphs[1].sentences)
        rows(j) == Pool[corpus[j]].rows
        expected(j) ==
            generate_sentence(
                example_from_conllu_sentence(
                    [ k \in 1..Len(rows(j)) |-> Join(rows(j)[k], <<TAB>>) ],
                    c_merge, c_morph).val,
                c_has_ner)
    IN  /\ cpc = "loop" =>
              /\ \A d \in 1..Len(c_docs) : count(d) = N
              /\ Len(c_sentences) < N
              /\ Len(c_docs) * N + Len(c_sentences) = c_i + 1
        /\ cpc = "done" =>
              /\ returned = [done |-> TRUE, docs |-> c_docs]
              /\ Len(c_docs) = (K + N - 1) \div N
              /\ \A d \in 1..Len(c_docs) :
                    count(d) = IF d < Len(c_docs) \/ K % N = 0 THEN N ELSE K % N
              /\ \A j \in 1..K :
                    c_docs[((j - 1) \div N) + 1].paragraphs[1].sentences[((j - 1) % N) + 1]
                        = expected(j)

\* three sentences in batches of two were returned as documents of 2 and 1
C1_Witness ==
    /\ cpc = "done" /\ Len(corpus) = 3 /\ c_n_sents = 2
    /\ corpus[1] # corpus[2] /\ corpus[2] # corpus[3] /\ corpus[1] # corpus[3]
    /\ Len(returned.docs) = 2
    /\ Len(returned.docs[1].paragraphs[1].sentences) = 2
    /\ Len(returned.docs[2].paragraphs[1].sentences) = 1

\* C2: every token record of every sentence, in the documents made and
\* among the pending sentences, has a "ner" field if the misc column of the
\* first non-comment line of the first sentence matches the entity pattern,
\* and none has one otherwise.
C2_NerPolicy ==
    cpc \in {"loop", "done", "raised"} =>
        LET first == ReSearch(Pool[corpus[1]].rows[1][10]).matched
            AllOf(sentence) ==
                \A t \in 1..Len(sentence.tokens) :
                    ("ner" \in DOMAIN sentence.tokens[t]) <=> first
        IN  /\ \A d \in 1..Len(c_docs) :
                  \A k \in 1..Len(c_docs[d].paragraphs[1].sentences) :
                      AllOf(c_docs[d].paragraphs[1].sentences[k])
            /\ \A k \in 1..Len(c_sentences) : AllOf(c_sentences[k])

\* the first line has no entity tag, later lines and sentences have:
\* the returned records have no "ner" field
C2_Witness ==
    /\ cpc = "done" /\ corpus = <<"plain", "ner">> /\ c_n_sents = 2
    /\ Len(returned.docs) = 1
    /\ \A k \in 1..2 :
          \A t \in 1..2 :
              "ner" \notin DOMAIN returned.docs[1].paragraphs[1].sentences[k].tokens[t]

\* C3 as stated: the raw text of every document is the concatenation, over
\* the tokens of its sentences in order, of the word followed by one space
\* iff the token's space-after flag is set.
C3_RawConcat ==
    \A d \in 1..Len(c_docs) :
        LET n == Len(c_docs[d].paragraphs[1].sentences)
            ex(k) == yielded[(d - 1) * c_n_sents + k]
            piece(e) == Join([ t \in 1..Len(e.words) |->
                                 e.words[t] \o (IF e.spaces[t] THEN <<" ">> ELSE <<>>) ],
                             <<>>)
        IN  c_docs[d].paragraphs[1].raw = Join([ k \in 1..n |-> piece(ex(k)) ], <<>>)

\* C3 amended: the raw text of every document is that concatenation with
\* the white space at its two ends removed, so the space after the
\* document's last token is not part of it.
C3_RawConcatStripped ==
    \A d \in 1..Len(c_docs) :
        LET n == Len(c_docs[d].paragraphs[1].sentences)
            ex(k) == yielded[(d - 1) * c_n_sents + k]
            piece(e) == Join([ t \in 1..Len(e.words) |->
                                 e.words[t] \o (IF e.spaces[t] THEN <<" ">> ELSE <<>>) ],
                             <<>>)
            whole == Join([ k \in 1..n |-> piece(ex(k)) ], <<>>)
        IN  c_docs[d].paragraphs[1].raw = Strip(whole)

\* a returned document of two sentences whose last token has a space after
\* it: "a b" (no space after b), then "Hi Bob " gives the raw text "a bHi Bob"
C3_Witness ==
    /\ cpc = "done" /\ corpus = <<"ner", "plain">> /\ c_n_sents = 2
    /\ yielded[2].spaces = <<TRUE, TRUE>>
    /\ returned.docs[1].paragraphs[1].raw = <<"a", " ", "b", "H", "i", " ", "B", "o", "b">>

\* C8: when a sentence of the corpus has a line that does not split into
\* exactly 10 columns, conllu2json never returns: nothing is handed to the
\* caller, whatever documents were completed before; the run ends with the
\* unpacking error raised at the first such sentence, none skipped.
C8_MalformedAborts ==
    LET bad == { k \in 1..Len(corpus) :
                   \E r \in 1..Len(Pool[corpus[k]].rows) :
                       Len(Pool[corpus[k]].rows[r]) # 10 }
    IN  bad # {} =>
           /\ cpc # "done"
           /\ returned = [done |-> FALSE, docs |-> <<>>]
           /\ c_i + 1 < SetMin(bad)
           /\ cpc = "raised" =>
                 /\ error.exc = "ValueError" /\ error.what = "unpack"
                 /\ c_i + 2 = SetMin(bad)
                 /\ ~ENABLED Next

\* the third sentence is malformed: the document completed from the first
\* two was made, and the caller got the error and no document
C8_Witness ==
    /\ cpc = "raised" /\ Len(corpus) = 3 /\ corpus[3] = "ragged" /\ c_n_sents = 2
    /\ Len(c_docs) = 1
    /\ returned = [done |-> FALSE, docs |-> <<>>]
    /\ error.what = "unpack"

\* C9: an error that aborts the conversion carries the position of the
\* offending sentence within the corpus.
C9_ErrorPosition ==
    cpc = "raised" =>
        /\ "sentence" \in DOMAIN error
        /\ error.sentence = c_i + 1

\* C11: with subtoken merging on, a sentence with a range line start-end
\* whose ids do not all have a word line is not converted: the conversion
\* ends in an error and no token record is made for the sentence.
C11_UnresolvableSpan ==
    (/\ spc = "parsed" /\ s_merge
     /\ \E r \in 1..Len(scols) :
           scols[r].kind = "range" /\ scols[r].stop > NWords(scols)) =>
        /\ ~s_example.ok
        /\ s_sentence.tokens = <<>>

\* C12: in every converted sentence the token records have the ids
\* 0, 1, ..., n-1 in order, each has the fields id, orth, tag, head and dep
\* (and ner, when the run has entity tags), the example's ids, words, tags,
\* heads, deps and entities all have n entries, and range and decimal lines
\* give no token: n is at most the number of the other lines, and without
\* subtoken merging it is that number, token k being the k-th such line.
C12_TokenIds ==
    (spc = "parsed" /\ s_example.ok) =>
        LET ws == SelectSeq(scols, LAMBDA c : c.kind = "word")
            toks == s_sentence.tokens
            n == Len(toks)
            ex == s_example.val
        IN  /\ \A k \in 1..n :
                  /\ toks[k].id = k - 1
                  /\ DOMAIN toks[k] \in { {"id", "orth", "tag", "head", "dep"},
                                          {"id", "orth", "tag", "head", "dep", "ner"} }
            /\ ex.ids = [ k \in 1..n |-> k - 1 ]
            /\ Len(ex.words) = n /\ Len(ex.tags) = n /\ Len(ex.heads) = n
            /\ Len(ex.deps) = n /\ Len(ex.entities) = n
            /\ n <= Len(ws)
            /\ ~s_merge =>
                  /\ n = Len(ws)
                  /\ \A k \in 1..n : toks[k].orth = ws[k].cols[2]

\* a sentence of a range line, two word lines and a decimal sub-id line,
\* converted without merging, gave the two token records 0 and 1
C12_Witness ==
    /\ spc = "parsed" /\ ~s_merge /\ s_example.ok
    /\ Len(scols) = 4
    /\ \E k \in 1..4 : scols[k].kind = "range"
    /\ \E k \in 1..4 : scols[k].kind = "decimal"
    /\ Len(s_sentence.tokens) = 2
    /\ s_sentence.tokens[1].id = 0 /\ s_sentence.tokens[2].id = 1

\* C13: with subtoken merging on, the walk records for a word line the
\* surface form of the last range line before it in the sentence when the
\* word's id is no greater than that range's end id, and the line's own word
\* otherwise: before any range line and after a range's end-id line.  With
\* merging off it records the line's own word.
C13_SubtokenWord ==
    (/\ spc = "parsed"
     /\ IF s_merge THEN s_attrs.ok ELSE s_example.ok) =>
        \A p \in 1..Len(scols) :
            scols[p].kind = "word" =>
                LET k == NWords(SubSeq(scols, 1, p))
                    rs == { r \in 1..(p - 1) :
                              scols[r].kind = "range" /\ scols[r].stop >= k }
                    recorded == IF s_merge THEN s_attrs.val.tokens[k].orth
                                ELSE s_example.val.words[k]
                IN  recorded = IF s_merge /\ rs # {}
                               THEN scols[SetMax(rs)].cols[2]
                               ELSE scols[p].cols[2]

\* word 1, then the range 2-3 with its two words: with merging on the walk
\* recorded d1 for the first word and the range's form for the other two
C13_Witness ==
    /\ spc = "parsed" /\ s_merge /\ s_attrs.ok
    /\ Len(scols) = 4 /\ scols[2].kind = "range" /\ scols[2].stop = 3
    /\ s_attrs.val.tokens[1].orth = <<"d", "1">>
    /\ s_attrs.val.tokens[2].orth = <<"a", "b">>
    /\ s_attrs.val.tokens[3].orth = <<"a", "b">>

\* C14: the id of every document made is the 0-based corpus index of the
\* last sentence it holds, the final partial document included; so the ids
\* increase strictly in emission order and the j-th document of n_sents
\* sentences has the id j * n_sents - 1.
C14_DocIds ==
    LET N == c_n_sents
        count(d) == Len(c_docs[d].paragraphs[1].sentences)
    IN  /\ \A d \in 1..Len(c_docs) :
              /\ c_docs[d].id = (d - 1) * N + count(d) - 1
              /\ count(d) = N => c_docs[d].id = d * N - 1
              /\ d > 1 => c_docs[d - 1].id < c_docs[d].id
              /\ c_docs[d].paragraphs[1].sentences[count(d)]
                     = generate_sentence(yielded[c_docs[d].id + 1], c_has_ner)
        /\ cpc = "done" =>
              /\ returned.docs = c_docs
              /\ c_docs[Len(c_docs)].id = Len(corpus) - 1

\* three sentences in batches of two: the documents returned have the ids
\* 1 and 2, the second being the final partial document
C14_Witness ==
    /\ cpc = "done" /\ Len(corpus) = 3 /\ c_n_sents = 2
    /\ Len(returned.docs) = 2
    /\ returned.docs[1].id = 1
    /\ returned.docs[2].id = 2

=============================================================================
